---- MODULE Spec2Model ----
(***************************************************************************)
(* Model of src/app.py: the "Analyze Portfolio" handler of the stock risk  *)
(* analyzer.  One run of the script is a linear pipeline: normalize the    *)
(* ticker string, fetch the adjusted-close table, test it for emptiness,   *)
(* compute daily returns, risk, correlation and cumulative return, and run *)
(* the Monte Carlo loops (50 paths, inner loop broken at count == 251).    *)
(*                                                                         *)
(* Numbers.  A float is modelled as an exact rational <<n, d>> in lowest   *)
(* terms with d > 0; <<0, 0>> is NaN and propagates through arithmetic as  *)
(* it does in numpy/pandas.  Rounding is not modelled.                     *)
(*                                                                         *)
(* Square roots.  A quantity q that is a square root in the code (std(),   *)
(* corr()) is carried as sign(q) * q^2, which is rational and determines   *)
(* q; NaN, zero and the sign are preserved.                                *)
(*                                                                         *)
(* Variables.  A Python name the run has not assigned yet holds an empty   *)
(* value of its type here, and `assigned` tells which names are bound.     *)
(* x and y are the positions of range(num_simulations) and                 *)
(* range(num_days): x counts the paths stored so far.                      *)
(*                                                                         *)
(* Spec is a whole run of the script; SpecNormalize and SpecReturns apply  *)
(* the normalizer and the returns / cumulative-return steps to every input *)
(* within the bounds.                                                      *)
(***************************************************************************)
EXTENDS Integers, Sequences, FiniteSets, TLC

VARIABLES
    pc,                 \* position of the script run
    tickers,            \* app.py:15  raw text of the sidebar input (sequence of characters)
    ticker_list,        \* app.py:28
    seed,               \* state of numpy's global generator at process start
    rng,                \* number of np.random.normal calls made so far
    fetchCalls,         \* number of get_data / yf.download calls made
    stock_data,         \* app.py:31
    daily_returns,      \* app.py:48
    daily_std,          \* app.py:52
    annualized_risk,    \* app.py:53
    correlation_matrix, \* app.py:79
    cumulative_returns, \* app.py:94
    last_price,         \* app.py:103
    simulation_df,      \* app.py:108, 128  sequence of columns
    x,                  \* app.py:110
    y,                  \* app.py:120
    count,              \* app.py:111
    daily_vol,          \* app.py:113
    price_series,       \* app.py:116
    price,              \* app.py:117, 123
    out,                \* the st.* display calls made, in order
    assigned            \* the names of the run's variables assigned so far

vars == <<pc, tickers, ticker_list, seed, rng, fetchCalls, stock_data,
          daily_returns, daily_std, annualized_risk, correlation_matrix,
          cumulative_returns, last_price, simulation_df, x, y, count,
          daily_vol, price_series, price, out, assigned>>

-----------------------------------------------------------------------------
(* Bounds of the model *)

\* longest raw ticker string explored by SpecNormalize
MaxLen == 4
\* most rows of a price table explored by SpecReturns
MaxRows == 3
\* largest price in the price tables explored by SpecReturns
MaxPrice == 2
\* number of generator seeds (shock streams) explored
NumSeeds == 2

-----------------------------------------------------------------------------
(* Program constants *)

num_simulations == 50
num_days == 252

-----------------------------------------------------------------------------
(* Float arithmetic on rationals with NaN *)

NaN == <<0, 0>>
IsNaN(a) == a[2] = 0

Abs(n) == IF n < 0 THEN -n ELSE n

RECURSIVE GCD(_, _)
GCD(a, b) == IF b = 0 THEN a ELSE GCD(b, a % b)

\* the rational n/d (d /= 0) in lowest terms, denominator positive
Rat(n, d) ==
    LET g == GCD(Abs(n), Abs(d))
        s == IF d < 0 THEN -1 ELSE 1
    IN  <<(s * n) \div g, (s * d) \div g>>

Num(n) == <<n, 1>>
One == Num(1)
Zero == Num(0)

Add(a, b) == IF IsNaN(a) \/ IsNaN(b) THEN NaN
             ELSE Rat(a[1] * b[2] + b[1] * a[2], a[2] * b[2])
Sub(a, b) == IF IsNaN(a) \/ IsNaN(b) THEN NaN
             ELSE Rat(a[1] * b[2] - b[1] * a[2], a[2] * b[2])
Mul(a, b) == IF IsNaN(a) \/ IsNaN(b) THEN NaN
             ELSE Rat(a[1] * b[1], a[2] * b[2])
\* prices are positive, so the divisor of pct_change is never zero; 0/0 is NaN
Div(a, b) == IF IsNaN(a) \/ IsNaN(b) \/ b[1] = 0 THEN NaN
             ELSE Rat(a[1] * b[2], a[2] * b[1])

IsPos(a) == ~IsNaN(a) /\ a[1] > 0
Sign(a) == IF a[1] > 0 THEN 1 ELSE IF a[1] < 0 THEN -1 ELSE 0

\* elementwise operations on vectors (pandas Series / numpy arrays)
VMul(u, v) == [i \in 1..Len(u) |-> Mul(u[i], v[i])]
VAdd1(v) == [i \in 1..Len(v) |-> Add(One, v[i])]

RECURSIVE SumSeq(_)
SumSeq(s) == IF s = <<>> THEN Zero ELSE Add(s[1], SumSeq(Tail(s)))

-----------------------------------------------------------------------------
(* Input normalizer, app.py:28: [x.strip().upper() for x in tickers.split(',')] *)

\* the characters a raw ticker string is built from in the model
Alphabet == {"a", "b", "A", " ", ","}

IsSpace(c) == c \in {" ", "\t", "\n"}

\* str.upper on one character
UpperChar(c) == CASE c = "a" -> "A"
                  [] c = "b" -> "B"
                  [] OTHER -> c

Upper(s) == [i \in 1..Len(s) |-> UpperChar(s[i])]

\* str.strip(): leading, then trailing whitespace removed
RECURSIVE LStrip(_)
LStrip(s) == IF s /= <<>> /\ IsSpace(Head(s)) THEN LStrip(Tail(s)) ELSE s

RECURSIVE RStrip(_)
RStrip(s) == IF s /= <<>> /\ IsSpace(s[Len(s)])
             THEN RStrip(SubSeq(s, 1, Len(s) - 1)) ELSE s

\* mutant of Strip: trailing whitespace is kept
StripLeft(s) == LStrip(s)

Strip(s) == RStrip(LStrip(s))

\* str.split(','): scan from position i with the current segment cur
RECURSIVE SplitFrom(_, _, _)
SplitFrom(s, i, cur) ==
    IF i > Len(s) THEN <<cur>>
    ELSE IF s[i] = "," THEN <<cur>> \o SplitFrom(s, i + 1, <<>>)
    ELSE SplitFrom(s, i + 1, Append(cur, s[i]))

Split(s) == SplitFrom(s, 1, <<>>)

Normalizer(s) == LET parts == Split(s)
                 IN  [k \in 1..Len(parts) |-> Upper(Strip(parts[k]))]

-----------------------------------------------------------------------------
(* Tables (pandas DataFrame): cols = column labels, index = the dates of   *)
(* the rows (a date is the row's position in the fetched table), rows =    *)
(* one vector of cells per date.                                           *)

Frame(cols, index, rows) == [cols |-> cols, index |-> index, rows |-> rows]

\* DataFrame.empty: some axis has length 0
IsEmpty(df) == Len(df.rows) = 0 \/ Len(df.cols) = 0

NCols(df) == Len(df.cols)
NRows(df) == Len(df.rows)

HasNaN(row) == \E c \in 1..Len(row) : IsNaN(row[c])

\* fillna(method='pad') of one cell: the last valid value at or above row t
RECURSIVE Pad(_, _, _)
Pad(rows, t, c) ==
    IF ~IsNaN(rows[t][c]) THEN rows[t][c]
    ELSE IF t = 1 THEN NaN
    ELSE Pad(rows, t - 1, c)

\* DataFrame.pct_change(): data / data.shift(1) - 1 on the padded data
PctChange(df) ==
    Frame(df.cols, df.index,
          [t \in 1..NRows(df) |->
             [c \in 1..NCols(df) |->
                IF t = 1 THEN NaN
                ELSE Sub(Div(Pad(df.rows, t, c), Pad(df.rows, t - 1, c)), One)]])

\* the positions of the rows dropna() keeps, in order
RECURSIVE KeptFrom(_, _)
KeptFrom(rows, t) ==
    IF t > Len(rows) THEN <<>>
    ELSE IF HasNaN(rows[t]) THEN KeptFrom(rows, t + 1)
    ELSE <<t>> \o KeptFrom(rows, t + 1)

\* mutant of DropNa: no row is dropped
DropNaKeepAll(df) == df

\* DataFrame.dropna(): every row holding a NaN is dropped
DropNa(df) ==
    LET keep == KeptFrom(df.rows, 1)
    IN  Frame(df.cols,
              [k \in 1..Len(keep) |-> df.index[keep[k]]],
              [k \in 1..Len(keep) |-> df.rows[keep[k]]])

\* app.py:48
DailyReturns(sd) == DropNa(PctChange(sd))

Column(df, c) == [t \in 1..NRows(df) |-> df.rows[t][c]]

Mean(s) == Div(SumSeq(s), Num(Len(s)))

\* sum of (a[t] - mean a)(b[t] - mean b) / (n - 1); NaN for fewer than 2 rows
Cov(a, b) ==
    IF Len(a) < 2 THEN NaN
    ELSE LET ma == Mean(a)
             mb == Mean(b)
         IN  Div(SumSeq([t \in 1..Len(a) |-> Mul(Sub(a[t], ma), Sub(b[t], mb))]),
                 Num(Len(a) - 1))

\* DataFrame.std() (ddof = 1) per column, carried as its square
Std(df) == [c \in 1..NCols(df) |-> Cov(Column(df, c), Column(df, c))]

\* app.py:53  daily_std * sqrt(252) * 100, carried as its square
AnnualizedRisk(std) == [c \in 1..Len(std) |-> Mul(std[c], Num(252 * 100 * 100))]

\* DataFrame.corr(): Pearson, carried as sign * square; NaN when a variance is 0
Corr(df) ==
    [i \in 1..NCols(df) |->
       [j \in 1..NCols(df) |->
          LET cij == Cov(Column(df, i), Column(df, j))
              vi == Cov(Column(df, i), Column(df, i))
              vj == Cov(Column(df, j), Column(df, j))
          IN  Mul(Num(Sign(cij)), Div(Mul(cij, cij), Mul(vi, vj)))]]

\* mutant of RunProd: a running sum (cumsum) in place of the running product
RECURSIVE RunSum(_, _, _)
RunSum(rows, t, c) ==
    IF t = 1 THEN Add(One, rows[1][c])
    ELSE Add(RunSum(rows, t - 1, c), Add(One, rows[t][c]))

\* running product of column c of (1 + rows) up to row t
RECURSIVE RunProd(_, _, _)
RunProd(rows, t, c) ==
    IF t = 1 THEN Add(One, rows[1][c])
    ELSE Mul(RunProd(rows, t - 1, c), Add(One, rows[t][c]))

\* app.py:94  (1 + daily_returns).cumprod()
CumProd(df) ==
    Frame(df.cols, df.index,
          [t \in 1..NRows(df) |-> [c \in 1..NCols(df) |-> RunProd(df.rows, t, c)]])

\* app.py:103  stock_data.iloc[-1]
LastRow(df) == df.rows[NRows(df)]


-----------------------------------------------------------------------------
(* numpy's global generator.  It is seeded once, when the process starts,  *)
(* and every later value is a function of the seed and of how many values  *)
(* were drawn before.  Stream(s) is the cycle of standard draws the seed s *)
(* produces; the i-th component of the c-th call reads position c + i.     *)
(* The length of a cycle does not divide the 252 calls of a path, so the   *)
(* paths of a run differ; the factors 1 + draw of a cycle multiply to 1,   *)
(* -1 or 0, which keeps the rationals small.                               *)

Stream(s) ==
    CASE s = 1 -> <<Rat(1, 1), Rat(2, 1), Rat(-5, 6), Rat(-1, 2), Rat(1, 1)>>
      [] s = 2 -> <<Rat(-2, 1), Rat(1, 1), Rat(-1, 2), Rat(-2, 1), Rat(0, 1)>>
      [] OTHER -> <<Rat(1, 1), Rat(-1, 2), Rat(-1, 1), Rat(1, 1), Rat(-1, 2)>>

\* one draw from Normal(0, scale): NaN for a NaN scale, exactly 0 for scale 0
Normal(s, c, i, scale) ==
    IF IsNaN(scale) THEN NaN
    ELSE IF scale[1] = 0 THEN Zero
    ELSE Stream(s)[((c + i) % Len(Stream(s))) + 1]

\* np.random.normal(0, scale, size) at call number c of the generator seeded s
RandomNormal(s, c, scale, size) == [i \in 1..size |-> Normal(s, c, i - 1, scale[i])]

\* mutant of Perturb: base * (1 - shock), the sign of the shock turned
PerturbMinus(base, s, c, vol, size) ==
    VMul(base, [i \in 1..size |-> Sub(One, RandomNormal(s, c, vol, size)[i])])

\* app.py:117, 123  base * (1 + np.random.normal(0, daily_vol, len(last_price)))
Perturb(base, s, c, vol, size) == VMul(base, VAdd1(RandomNormal(s, c, vol, size)))

\* mutant of StartPoint: the path starts at the last observed price itself
StartPointUnperturbed(last, s, c, vol, size) == last

\* app.py:117  the start point of a path
StartPoint(last, s, c, vol, size) == Perturb(last, s, c, vol, size)

\* mutant of Break: the break comes one count later
BreakLate(cnt) == cnt = 252

\* app.py:121  if count == 251: break
Break(cnt) == cnt = 251

\* app.py:128  [p[0] for p in price_series]
FirstOfEach(ps) == [k \in 1..Len(ps) |-> ps[k][1]]

\* mutant of SetColumn: the new column is put in front of the others
SetColumnFront(df, col, values) == <<values>> \o df

\* app.py:128  simulation_df[x] = column  (x is the 0-based column label)
SetColumn(df, col, values) ==
    [c \in 1..(IF col + 1 > Len(df) THEN col + 1 ELSE Len(df)) |->
        IF c = col + 1 THEN values ELSE df[c]]

-----------------------------------------------------------------------------
(* The market-data provider (yf.download(...)['Adj Close']) is outside the *)
(* repository: it answers a ticker list with an empty table or with a      *)
(* table whose columns are the distinct tickers asked for, in an order of  *)
(* its own choosing.                                                       *)

Range(f) == {f[k] : k \in DOMAIN f}

Perms(S) == {p \in [1..Cardinality(S) -> S] : Range(p) = S}

DateIndex(n) == [t \in 1..n |-> t]

Prices(rows) == [t \in 1..Len(rows) |-> [c \in 1..Len(rows[t]) |->
                    IF rows[t][c] = 0 THEN NaN ELSE Num(rows[t][c])]]

\* price histories the provider answers with in Spec, by number of columns
\* (0 stands for a missing cell)
Histories(n) ==
    IF n = 1 THEN {Prices(<<<<2>>>>),
                   Prices(<<<<2>>, <<2>>, <<2>>>>),
                   Prices(<<<<0>>, <<1>>, <<2>>, <<1>>>>)}
    ELSE IF n = 2 THEN {Prices(<<<<1, 2>>, <<2, 2>>, <<1, 4>>>>)}
    ELSE {}

EmptyTable == Frame(<<>>, <<>>, <<>>)

FetchResults(tl) ==
    LET L == Range(tl) \ {<<>>}
    IN  {EmptyTable} \cup
        {Frame(cols, DateIndex(Len(rows)), rows) :
            cols \in Perms(L), rows \in Histories(Cardinality(L))}

\* the raw strings typed into the sidebar in Spec
TickerInputs == { <<>>, <<"a">>, <<"b", ",", " ", "a">> }

-----------------------------------------------------------------------------
(* One run of the script *)

Init ==
    /\ pc = "start"
    /\ tickers \in TickerInputs
    /\ seed \in 1..NumSeeds
    /\ rng = 0
    /\ fetchCalls = 0
    /\ ticker_list = <<>>
    /\ stock_data = EmptyTable
    /\ daily_returns = EmptyTable
    /\ daily_std = <<>>
    /\ annualized_risk = <<>>
    /\ correlation_matrix = <<>>
    /\ cumulative_returns = EmptyTable
    /\ last_price = <<>>
    /\ simulation_df = <<>>
    /\ x = 0
    /\ y = 0
    /\ count = 0
    /\ daily_vol = <<>>
    /\ price_series = <<>>
    /\ price = <<>>
    /\ out = <<>>
    /\ assigned = {}

simLocals == <<x, y, count, daily_vol, price_series, price>>
statistics == <<daily_std, annualized_risk, correlation_matrix, cumulative_returns>>
inputs == <<tickers, seed>>

\* app.py:26  st.button(...) is False: the run renders the page and ends
NoClick ==
    /\ pc = "start"
    /\ pc' = "done"
    /\ UNCHANGED <<inputs, assigned, ticker_list, rng, fetchCalls, stock_data, daily_returns,
                   statistics, last_price, simulation_df, simLocals, out>>

\* app.py:26  the button was clicked
Click ==
    /\ pc = "start"
    /\ pc' = "normalize"
    /\ UNCHANGED <<inputs, assigned, ticker_list, rng, fetchCalls, stock_data, daily_returns,
                   statistics, last_price, simulation_df, simLocals, out>>

\* app.py:28
Normalize ==
    /\ pc = "normalize"
    /\ ticker_list' = Normalizer(tickers)
    /\ pc' = "fetch"
    /\ assigned' = assigned \cup {"ticker_list"}
    /\ UNCHANGED <<inputs, rng, fetchCalls, stock_data, daily_returns,
                   statistics, last_price, simulation_df, simLocals, out>>

\* app.py:31, 20-23  get_data
Fetch ==
    /\ pc = "fetch"
    /\ \E table \in FetchResults(ticker_list) : stock_data' = table
    /\ fetchCalls' = fetchCalls + 1
    /\ pc' = "check"
    /\ assigned' = assigned \cup {"stock_data"}
    /\ UNCHANGED <<inputs, ticker_list, rng, daily_returns,
                   statistics, last_price, simulation_df, simLocals, out>>

\* mutant of NoData: the fetch is tried again after an empty result
NoDataRetry ==
    /\ pc = "check"
    /\ IsEmpty(stock_data)
    /\ out' = Append(out, "error")
    /\ pc' = "fetch"
    /\ UNCHANGED <<inputs, assigned, ticker_list, rng, fetchCalls, stock_data, daily_returns,
                   statistics, last_price, simulation_df, simLocals>>

\* app.py:34-35
NoData ==
    /\ pc = "check"
    /\ IsEmpty(stock_data)
    /\ out' = Append(out, "error")
    /\ pc' = "done"
    /\ UNCHANGED <<inputs, assigned, ticker_list, rng, fetchCalls, stock_data, daily_returns,
                   statistics, last_price, simulation_df, simLocals>>

\* mutant of Loaded: the pipeline goes on without the emptiness test
LoadedUnchecked ==
    /\ pc = "check"
    /\ out' = out \o <<"success", "dataframe", "line_chart:price">>
    /\ pc' = "returns"
    /\ UNCHANGED <<inputs, assigned, ticker_list, rng, fetchCalls, stock_data, daily_returns,
                   statistics, last_price, simulation_df, simLocals>>

\* app.py:36-45
Loaded ==
    /\ pc = "check"
    /\ ~IsEmpty(stock_data)
    /\ out' = out \o <<"success", "dataframe", "line_chart:price">>
    /\ pc' = "returns"
    /\ UNCHANGED <<inputs, assigned, ticker_list, rng, fetchCalls, stock_data, daily_returns,
                   statistics, last_price, simulation_df, simLocals>>

\* app.py:48; next is where the run goes on
ReturnsStep(next) ==
    /\ pc = "returns"
    /\ daily_returns' = DailyReturns(stock_data)
    /\ pc' = next
    /\ assigned' = assigned \cup {"daily_returns"}
    /\ UNCHANGED <<inputs, ticker_list, rng, fetchCalls, stock_data,
                   statistics, last_price, simulation_df, simLocals, out>>

Returns == ReturnsStep("risk")

\* app.py:52-70
Risk ==
    /\ pc = "risk"
    /\ daily_std' = Std(daily_returns)
    /\ annualized_risk' = AnnualizedRisk(daily_std')
    /\ out' = Append(out, "plotly_chart:risk")
    /\ pc' = "corr"
    /\ assigned' = assigned \cup {"daily_std", "annualized_risk"}
    /\ UNCHANGED <<inputs, ticker_list, rng, fetchCalls, stock_data, daily_returns,
                   correlation_matrix, cumulative_returns, last_price,
                   simulation_df, simLocals>>

\* app.py:79-87
Correlation ==
    /\ pc = "corr"
    /\ correlation_matrix' = Corr(daily_returns)
    /\ out' = Append(out, "plotly_chart:corr")
    /\ pc' = "cumret"
    /\ assigned' = assigned \cup {"correlation_matrix"}
    /\ UNCHANGED <<inputs, ticker_list, rng, fetchCalls, stock_data, daily_returns,
                   daily_std, annualized_risk, cumulative_returns, last_price,
                   simulation_df, simLocals>>

\* app.py:94-95
CumulativeStep(next) ==
    /\ pc = "cumret"
    /\ cumulative_returns' = CumProd(daily_returns)
    /\ out' = Append(out, "line_chart:cumret")
    /\ pc' = next
    /\ assigned' = assigned \cup {"cumulative_returns"}
    /\ UNCHANGED <<inputs, ticker_list, rng, fetchCalls, stock_data, daily_returns,
                   daily_std, annualized_risk, correlation_matrix, last_price,
                   simulation_df, simLocals>>

Cumulative == CumulativeStep("sim")

\* app.py:103-108
SimInit ==
    /\ pc = "sim"
    /\ last_price' = LastRow(stock_data)
    /\ simulation_df' = <<>>
    /\ x' = 0
    /\ pc' = "outer"
    /\ assigned' = assigned \cup {"last_price", "simulation_df"}
    /\ UNCHANGED <<inputs, ticker_list, rng, fetchCalls, stock_data, daily_returns,
                   statistics, y, count, daily_vol, price_series, price, out>>

\* app.py:110-118  one iteration of the outer loop up to the start point
PathStart ==
    /\ pc = "outer"
    /\ x < num_simulations
    /\ count' = 0
    /\ daily_vol' = Std(daily_returns)
    /\ price' = StartPoint(last_price, seed, rng, daily_vol', Len(last_price))
    /\ price_series' = <<price'>>
    /\ rng' = rng + 1
    /\ y' = 0
    /\ pc' = "inner"
    /\ assigned' = assigned \cup {"x", "count", "daily_vol", "price_series", "price"}
    /\ UNCHANGED <<inputs, ticker_list, fetchCalls, stock_data, daily_returns,
                   statistics, last_price, simulation_df, x, out>>

\* app.py:120-125  one iteration of the inner loop that does not break
Step ==
    /\ pc = "inner"
    /\ y < num_days
    /\ ~Break(count)
    /\ price' = Perturb(price_series[count + 1], seed, rng, daily_vol, Len(last_price))
    /\ price_series' = Append(price_series, price')
    /\ rng' = rng + 1
    /\ count' = count + 1
    /\ y' = y + 1
    /\ assigned' = assigned \cup {"y"}
    /\ UNCHANGED <<pc, inputs, ticker_list, fetchCalls, stock_data, daily_returns,
                   statistics, last_price, simulation_df, x, daily_vol, out>>

\* app.py:120-122  the inner loop ends: by the break, or with range(num_days) used up
StepsDone ==
    /\ pc = "inner"
    /\ ~(y < num_days /\ ~Break(count))
    /\ pc' = "store"
    /\ UNCHANGED <<inputs, assigned, ticker_list, rng, fetchCalls, stock_data, daily_returns,
                   statistics, last_price, simulation_df, simLocals, out>>

\* app.py:128
Store ==
    /\ pc = "store"
    /\ simulation_df' = SetColumn(simulation_df, x, FirstOfEach(price_series))
    /\ x' = x + 1
    /\ pc' = "outer"
    /\ UNCHANGED <<inputs, assigned, ticker_list, rng, fetchCalls, stock_data, daily_returns,
                   statistics, last_price, y, count, daily_vol, price_series,
                   price, out>>

\* app.py:131-132
Plot ==
    /\ pc = "outer"
    /\ ~(x < num_simulations)
    /\ out' = Append(out, "line_chart:simulation")
    /\ pc' = "done"
    /\ UNCHANGED <<inputs, assigned, ticker_list, rng, fetchCalls, stock_data, daily_returns,
                   statistics, last_price, simulation_df, simLocals>>

Next ==
    \/ NoClick
    \/ Click
    \/ Normalize
    \/ Fetch
    \/ NoData
    \/ Loaded
    \/ Returns
    \/ Risk
    \/ Correlation
    \/ Cumulative
    \/ SimInit
    \/ PathStart
    \/ Step
    \/ StepsDone
    \/ Store
    \/ Plot

Spec == Init /\ [][Next]_vars


-----------------------------------------------------------------------------
(* The normalizer alone, on every raw string of at most MaxLen characters *)

RECURSIVE Strings(_)
Strings(n) == IF n = 0 THEN {<<>>}
              ELSE LET shorter == Strings(n - 1)
                   IN  shorter \cup {Append(w, c) : w \in {v \in shorter : Len(v) = n - 1},
                                                    c \in Alphabet}

InitNormalize ==
    /\ pc = "start"
    /\ tickers \in Strings(MaxLen)
    /\ seed = 1
    /\ rng = 0
    /\ fetchCalls = 0
    /\ ticker_list = <<>>
    /\ stock_data = EmptyTable
    /\ daily_returns = EmptyTable
    /\ daily_std = <<>>
    /\ annualized_risk = <<>>
    /\ correlation_matrix = <<>>
    /\ cumulative_returns = EmptyTable
    /\ last_price = <<>>
    /\ simulation_df = <<>>
    /\ x = 0
    /\ y = 0
    /\ count = 0
    /\ daily_vol = <<>>
    /\ price_series = <<>>
    /\ price = <<>>
    /\ out = <<>>
    /\ assigned = {}

NextNormalize ==
    \/ Click
    \/ Normalize

SpecNormalize == InitNormalize /\ [][NextNormalize]_vars

-----------------------------------------------------------------------------
(* The returns and cumulative-return steps alone, on every price table of  *)
(* one or two tickers with at most MaxRows rows and cells that are missing *)
(* or a price in 1..MaxPrice, and on the five-row series 100, 101, 99,     *)
(* 102, 103.  The run is taken up after the table was loaded; the risk and *)
(* correlation steps between the two only read daily_returns and are left  *)
(* out.                                                                    *)

Cells == {NaN} \cup {Num(v) : v \in 1..MaxPrice}

RowSeqs(n) == UNION {[1..r -> [1..n -> Cells]] : r \in 1..MaxRows}

Scenario == Frame(<<<<"A">>>>, DateIndex(5),
                  Prices(<<<<100>>, <<101>>, <<99>>, <<102>>, <<103>>>>))

ReturnTables ==
    {Frame(<<<<"A">>>>, DateIndex(Len(rows)), rows) : rows \in RowSeqs(1)}
    \cup {Frame(<<<<"A">>, <<"B">>>>, DateIndex(Len(rows)), rows) : rows \in RowSeqs(2)}
    \cup {Scenario}

InitReturns ==
    /\ pc = "returns"
    /\ stock_data \in ReturnTables
    /\ tickers = (IF NCols(stock_data) = 1 THEN <<"a">> ELSE <<"a", ",", "b">>)
    /\ ticker_list = Normalizer(tickers)
    /\ seed = 1
    /\ rng = 0
    /\ fetchCalls = 1
    /\ daily_returns = EmptyTable
    /\ daily_std = <<>>
    /\ annualized_risk = <<>>
    /\ correlation_matrix = <<>>
    /\ cumulative_returns = EmptyTable
    /\ last_price = <<>>
    /\ simulation_df = <<>>
    /\ x = 0
    /\ y = 0
    /\ count = 0
    /\ daily_vol = <<>>
    /\ price_series = <<>>
    /\ price = <<>>
    /\ out = <<"success", "dataframe", "line_chart:price">>
    /\ assigned = {"ticker_list", "stock_data"}

NextReturns ==
    \/ ReturnsStep("cumret")
    \/ CumulativeStep("sim")

SpecReturns == InitReturns /\ [][NextReturns]_vars


-----------------------------------------------------------------------------
(* Helpers of the properties *)

Computed(name) == name \in assigned

\* the run is inside the Monte Carlo section with a path under construction
InPath == pc \in {"inner", "store"}

\* some vector component is not strictly positive / all are
AllPos(v) == \A i \in 1..Len(v) : IsPos(v[i])

NoMissing(df) == \A t \in 1..NRows(df) : ~HasNaN(df.rows[t])

\* the shock applied to the first column at row k (0-based) of path p (0-based):
\* each path makes 252 calls of the generator, one per row
ShockAt(p, k) == Normal(seed, 252 * p + k, 0, daily_vol[1])

\* a > -1 for a rational a
AboveMinusOne(a) == ~IsNaN(a) /\ a[1] + a[2] > 0

\* the column of the table that holds the given ticker
ColumnOf(df, label) == CHOOSE c \in 1..NCols(df) : df.cols[c] = label

-----------------------------------------------------------------------------
(* C1 *)

\* C1: when the fetched table is empty the run signals "no data" (the error
\* message is the only output) and stops, and none of the daily-returns,
\* risk, correlation, cumulative-return or simulation computations is made
\* (no result is assigned, no random number is drawn); these computations
\* are reached only with a non-empty table.
C1_EmptyTableStopsRun ==
    /\ (Computed("stock_data") /\ (NRows(stock_data) = 0 \/ NCols(stock_data) = 0)) =>
          /\ pc \in {"check", "done"}
          /\ pc = "done" => out = <<"error">>
          /\ pc = "check" => out = <<>>
          /\ ~Computed("daily_returns")
          /\ ~Computed("daily_std") /\ ~Computed("annualized_risk")
          /\ ~Computed("correlation_matrix")
          /\ ~Computed("cumulative_returns")
          /\ ~Computed("last_price") /\ ~Computed("simulation_df")
          /\ rng = 0
    /\ (\/ Computed("daily_returns") \/ Computed("daily_std") \/ Computed("annualized_risk")
        \/ Computed("correlation_matrix") \/ Computed("cumulative_returns")
        \/ Computed("last_price") \/ Computed("simulation_df") \/ rng > 0
        \/ pc \in {"returns", "risk", "corr", "cumret", "sim", "outer", "inner", "store"}) =>
          /\ Computed("stock_data")
          /\ NRows(stock_data) > 0 /\ NCols(stock_data) > 0
          /\ "error" \notin Range(out)

\* an empty table was fetched and the run has ended with the error message
C1_Witness ==
    /\ pc = "done"
    /\ Computed("stock_data")
    /\ NRows(stock_data) = 0
    /\ out = <<"error">>

-----------------------------------------------------------------------------
(* C2 *)

\* C2: for every non-empty price table (a single-row table included) the
\* simulation output has exactly 50 columns of exactly 252 rows each: every
\* path leaves the inner loop with exactly 252 entries (the start point plus
\* 251 steps), and every column stored so far has 252 rows.
C2_SimulationShape ==
    /\ pc = "store" => Len(price_series) = 252
    /\ InPath => Len(price_series) <= 252
    /\ Computed("simulation_df") =>
          /\ Len(simulation_df) <= 50
          /\ \A c \in 1..Len(simulation_df) : Len(simulation_df[c]) = 252
    /\ (pc = "done" /\ Computed("stock_data") /\ ~IsEmpty(stock_data)) =>
          /\ Computed("simulation_df")
          /\ Len(simulation_df) = 50

\* the first path of a run on a single-row table has been stored
C2_Witness ==
    /\ pc = "outer"
    /\ x = 1
    /\ NRows(stock_data) = 1
    /\ Len(simulation_df) = 1
    /\ Len(simulation_df[1]) = 252
    /\ Len(price_series) = 252

-----------------------------------------------------------------------------
(* C4 *)

\* C4 as claimed: with every daily volatility positive and every last price
\* positive, every value of every stored path is strictly positive.
C4_AlwaysPositive ==
    (pc = "outer" /\ x > 0 /\ AllPos(daily_vol) /\ AllPos(last_price)) =>
        \A k \in 1..Len(simulation_df[x]) : IsPos(simulation_df[x][k])

\* C4 amended: with every daily volatility positive and every last price
\* positive, a value of a stored path is strictly positive when every shock
\* applied on that path up to its row is greater than -1; a shock of -1 or
\* less applied to a positive price gives a value that is zero or negative.
C4_PositiveWhileShocksAboveMinusOne ==
    (pc = "outer" /\ x > 0 /\ AllPos(daily_vol) /\ AllPos(last_price)) =>
        \A k \in 1..Len(simulation_df[x]) :
            LET prev == IF k = 1 THEN last_price[1] ELSE simulation_df[x][k - 1]
            IN  /\ (\A j \in 0..(k - 1) : AboveMinusOne(ShockAt(x - 1, j)))
                      => IsPos(simulation_df[x][k])
                /\ (IsPos(prev) /\ ~AboveMinusOne(ShockAt(x - 1, k - 1)))
                      => ~IsPos(simulation_df[x][k])

\* a path was stored whose 252 shocks were all above -1, from positive inputs
C4_Witness ==
    /\ pc = "outer"
    /\ x > 0
    /\ AllPos(daily_vol)
    /\ AllPos(last_price)
    /\ Len(simulation_df[x]) = 252
    /\ \A j \in 0..251 : AboveMinusOne(ShockAt(x - 1, j)) /\ ShockAt(x - 1, j) /= Zero

-----------------------------------------------------------------------------
(* C5 *)

\* C5: every value stored in a simulation column is the simulated price of
\* the ticker at position 0 of the normalized user list, whatever the order
\* of the columns of the fetched table.
C5_FirstTickerOfUserList ==
    (pc = "outer" /\ x > 0) =>
        \A k \in 1..Len(simulation_df[x]) :
            simulation_df[x][k] = price_series[k][ColumnOf(stock_data, ticker_list[1])]


-----------------------------------------------------------------------------
(* C8 *)

-----------------------------------------------------------------------------
(* C9 *)

\* C9: in every run in which the button was clicked the provider is called
\* exactly once, whatever it returns: not before the input is normalized,
\* before the empty-table check gives its outcome, and never again (neither
\* after an empty result nor during the computations that follow).
C9_FetchedExactlyOnce ==
    /\ fetchCalls = (IF "stock_data" \in assigned THEN 1 ELSE 0)
    /\ pc \in {"start", "normalize", "fetch"} => fetchCalls = 0
    /\ pc \in {"check", "returns", "risk", "corr", "cumret", "sim",
               "outer", "inner", "store"} => fetchCalls = 1
    /\ (pc = "done" /\ "ticker_list" \in assigned) => fetchCalls = 1
    /\ fetchCalls > 0 => "ticker_list" \in assigned
    /\ out /= <<>> => fetchCalls = 1
    /\ pc = "check" => out = <<>>

\* the run is past every computation and inside the simulation, a path
\* stored, after its one call
C9_Witness ==
    /\ pc = "outer"
    /\ x = 1
    /\ fetchCalls = 1
    /\ Computed("cumulative_returns")
    /\ Len(simulation_df) = 1

-----------------------------------------------------------------------------
(* C10 *)

\* the step-wise statement of C10, on one step of the run
C10_Frame ==
    pc \in {"outer", "inner", "store"} =>
          /\ stock_data' = stock_data
          /\ daily_returns' = daily_returns
          /\ last_price' = last_price
          /\ last_price = LastRow(stock_data)
          /\ pc /= "outer" => daily_vol' = daily_vol
          /\ (pc = "outer" /\ pc' = "inner") =>
                /\ daily_vol' = Std(daily_returns)
                /\ x > 0 => daily_vol' = daily_vol
                /\ price_series' =
                      << VMul(last_price,
                              VAdd1(RandomNormal(seed, rng, daily_vol', Len(last_price)))) >>
          /\ Len(simulation_df') >= Len(simulation_df)
          /\ \A c \in 1..Len(simulation_df) : simulation_df'[c] = simulation_df[c]
          /\ pc = "store" =>
                /\ Len(simulation_df') = x + 1
                /\ simulation_df'[x + 1] = [k \in 1..Len(price_series) |-> price_series[k][1]]
          /\ pc /= "store" => simulation_df' = simulation_df

\* C10: no step of the simulation changes the price table, the returns
\* table, the last observed prices or the daily volatility; every path
\* starts from that same last observed price and that same volatility
\* (recomputed from the unchanged returns), never from an earlier path's
\* values; and storing path x appends column x and leaves the columns
\* 0..x-1 as they were.
C10_SimulationFrame == [][C10_Frame]_vars

\* a third path is being built while two stored columns exist
C10_Witness ==
    /\ pc = "inner"
    /\ x = 2
    /\ Len(simulation_df) = 2
    /\ Len(price_series) = 252

-----------------------------------------------------------------------------
(* C7 *)

CommaPositions(s) == {i \in 1..Len(s) : s[i] = ","}

\* the position of the k-th comma of s; 0 before the first, Len(s) + 1 after the last
CommaAt(s, k) ==
    IF k = 0 THEN 0
    ELSE IF k > Cardinality(CommaPositions(s)) THEN Len(s) + 1
    ELSE CHOOSE i \in CommaPositions(s) :
            Cardinality({j \in CommaPositions(s) : j < i}) = k - 1

\* the k-th comma-separated segment of s
Segment(s, k) == SubSeq(s, CommaAt(s, k - 1) + 1, CommaAt(s, k) - 1)

\* d is the character c with a letter made uppercase
IsUpperOf(c, d) == \/ c = "a" /\ d = "A"
                   \/ c = "b" /\ d = "B"
                   \/ c \notin {"a", "b"} /\ d = c

\* e is seg without its leading and trailing blanks, uppercased
IsTrimmedUpper(seg, e) ==
    \E i \in 0..Len(seg) : \E j \in i..Len(seg) :
        /\ \A m \in 1..i : seg[m] = " "
        /\ \A m \in (j + 1)..Len(seg) : seg[m] = " "
        /\ Len(e) = j - i
        /\ \A m \in 1..Len(e) : IsUpperOf(seg[i + m], e[m])
        /\ e /= <<>> => (e[1] /= " " /\ e[Len(e)] /= " ")

\* C7: for every raw string the normalizer returns one entry per
\* comma-separated segment, in input order, each the segment trimmed and
\* uppercased; duplicates and empty segments (the empty string included)
\* are kept, and every input gets a result.
C7_NormalizerPerSegment ==
    /\ pc = "fetch" => "ticker_list" \in assigned
    /\ "ticker_list" \in assigned =>
          /\ Len(ticker_list) = Cardinality(CommaPositions(tickers)) + 1
          /\ \A k \in 1..Len(ticker_list) :
                IsTrimmedUpper(Segment(tickers, k), ticker_list[k])

\* a string with blanks, an empty segment and a duplicate has been normalized
C7_Witness ==
    /\ pc = "fetch"
    /\ tickers = <<"a", ",", ",", "A">>
    /\ ticker_list = << <<"A">>, <<>>, <<"A">> >>

-----------------------------------------------------------------------------
(* C3 *)

\* C3 as claimed: the returns table has exactly one row fewer than the
\* price table, missing cells or not.
C3_OneRowFewer ==
    Computed("daily_returns") => NRows(daily_returns) = NRows(stock_data) - 1

\* C3 amended: the returns table never holds the first date and has at most
\* one row fewer than the price table; for a price table without missing
\* cells it has exactly one row fewer, only the first row being dropped.
C3_OneRowFewerWithoutMissingCells ==
    Computed("daily_returns") =>
        /\ NRows(daily_returns) <= NRows(stock_data) - 1
        /\ 1 \notin Range(daily_returns.index)
        /\ NoMissing(stock_data) =>
              /\ NRows(daily_returns) = NRows(stock_data) - 1
              /\ daily_returns.index = [k \in 1..(NRows(stock_data) - 1) |-> k + 1]

\* the returns of a three-row, two-ticker table without missing cells
C3_Witness ==
    /\ Computed("daily_returns")
    /\ NoMissing(stock_data)
    /\ NRows(stock_data) = 3
    /\ NCols(stock_data) = 2
    /\ NRows(daily_returns) = 2

-----------------------------------------------------------------------------
(* C6 *)

====
